---- MODULE Spec2Model ----
(***************************************************************************)
(* Stack rooting and cross-thread pinning of JS-managed DOM objects:       *)
(*   components/script/dom/bindings/js.rs         RootCollection, Root,    *)
(*                                                DOMVec, DOMMap           *)
(*   components/script/dom/bindings/refcounted.rs Trusted,                 *)
(*                                                LiveDOMReferences        *)
(* and  components/script/dom/nodelist.rs         ChildrenList             *)
(*      components/script/dom/webgl{shader,buffer,program,texture}.rs      *)
(* Indices are 0-based as in the source; the TLA+ sequence that holds a    *)
(* Vec stores element i at position i + 1.                                 *)
(***************************************************************************)
EXTENDS Integers, Sequences, FiniteSets, Bags, TLC

\* ------------------------------------------------------------------------
\* Bounds of the model
\* ------------------------------------------------------------------------
MaxHandles == 3
MaxSlots == 4
MaxOuterDrops == 2
MaxTrusted == 2
MaxCells == 3
MaxResolved == 1
MaxVecLen == 4
MaxChildren == 3
MaxAdded == 2
MaxBinds == 3

\* ------------------------------------------------------------------------
\* Values
\* ------------------------------------------------------------------------
NULL == "null"
Threads == {"script", "worker"}

\* Objects of the script thread: two DOM objects, a JS array backing a
\* DOMVec and a JS object backing a DOMMap.  One DOM object on the worker.
ScriptObjs == {"a", "b", "arr", "map"}
WorkerObjs == {"w"}
Objs == ScriptObjs \cup WorkerObjs

Home(obj) == IF obj \in WorkerObjs THEN "worker" ELSE "script"

\* The handle type that roots an object: Root<T> for DOM objects,
\* DOMVec for a JS array, DOMMap for a plain JS object.
KindOf(obj) == IF obj = "arr" THEN "DOMVec"
               ELSE IF obj = "map" THEN "DOMMap"
               ELSE "Root"

\* Vec::with_capacity(4096) in RootCollection::new
RootsCapacity == 4096

Min(x, y) == IF x <= y THEN x ELSE y

VARIABLES
    roots,           \* roots[t]: RootCollection.roots of thread t's STACK_ROOTS
    next_empty_idx,  \* next_empty_idx[t]: RootCollection.next_empty_idx
    capacity,        \* capacity[t]: capacity of the Vec behind roots[t]
    buffer,          \* buffer[t]: identity of the allocation behind roots[t]
    handles,         \* the bag of Root / DOMVec / DOMMap values in existence
    outer,           \* Roots held by enclosing frames, occupying slots 0..outer-1 of the script thread
    traced,          \* what the last trace_roots call reported to the tracer
    aborted,         \* a panic (failed assert!, bounds check, unreachable!) was raised
    op,              \* the operation performed by the last step
    table,           \* table[t]: LiveDOMReferences.table of thread t's LIVE_REFERENCES
    cells,           \* cells[c]: an Arc<Heap<*mut JSObject>>: pointer and strong count
    trusted,         \* the bag of Trusted<T> values in existence, each with the position of its drop
    script_chan,     \* script_chan[t]: RefcountCleanup messages sent to thread t
    port_open,       \* port_open[t]: the receiving end of thread t's channel exists
    hist,            \* hist[c]: Trusted::new calls, messages sent and handled for cell c
    elems,           \* the elements of the JS array "arr", a JSVal each
    props,           \* the own properties of the JS object "map", a JSVal or absent for each key
    children,        \* the children of the node behind the ChildrenList, in tree order
    last_visited,    \* ChildrenList.last_visited: a node or None
    last_index,      \* ChildrenList.last_index, a u32
    is_deleted,      \* is_deleted[o]: the is_deleted field of the WebGL object o
    target,          \* WebGLBuffer.target: None or the target of the first bind
    renderer         \* the messages sent to the renderer, oldest first

regVars == <<roots, next_empty_idx, capacity, buffer, handles, outer, traced>>
pinVars == <<table, cells, trusted, script_chan, port_open, hist>>
listVars == <<children, last_visited, last_index>>
glVars == <<is_deleted, target, renderer>>
vars == <<roots, next_empty_idx, capacity, buffer, handles, outer, traced, aborted, op,
          table, cells, trusted, script_chan, port_open, hist, elems, props, listVars, glVars>>

CellIds == 1..MaxCells

\* No Arc is allocated under the cell id.
NoCell == [ptr |-> NULL, strong |-> 0]
NoHist == [pins |-> 0, sent |-> 0, handled |-> 0]

Op(name, t, idx, obj) == [name |-> name, t |-> t, idx |-> idx, obj |-> obj]

One(x) == SetToBag({x})

\* ------------------------------------------------------------------------
\* RootCollection (js.rs)
\* ------------------------------------------------------------------------

\* A scan that takes the cursor as it is, without looking for a null.
ScanEmpty_NoScan(rs, i) == i

\* RootCollection::root, the while loop: first index >= i holding a null.
RECURSIVE ScanEmpty(_, _)
ScanEmpty(rs, i) ==
    IF i < Len(rs) /\ rs[i + 1] # NULL THEN ScanEmpty(rs, i + 1) ELSE i

\* RootCollection::root: the registry after the call and the returned index.
RootCollection_root(rs, cur, obj) ==
    LET idx == ScanEmpty(rs, cur) IN
    [ roots          |-> IF idx < Len(rs) THEN [rs EXCEPT ![idx + 1] = obj]
                                          ELSE Append(rs, obj),
      next_empty_idx |-> idx,
      idx            |-> idx,
      pushed         |-> ~(idx < Len(rs)) ]

\* A reverse scan that steps over one entry without testing it.
TrimTail_OneTooFar(rs, idx) == IF idx > 0 THEN idx - 1 ELSE idx

\* A reverse scan that stops at once: only the unrooted slot is cut off.
TrimTail_NoLoop(rs, idx) == idx

\* RootCollection::unroot, the reverse scan over roots[..idx].
RECURSIVE TrimTail(_, _)
TrimTail(rs, idx) ==
    IF idx > 0 /\ rs[idx] = NULL THEN TrimTail(rs, idx - 1) ELSE idx

\* An unroot that never truncates: the last slot is cleared like any other.
RootCollection_unroot_NoTrim(rs, cur, idx) ==
    IF idx >= Len(rs) \/ rs[idx + 1] = NULL
    THEN [roots |-> rs, next_empty_idx |-> cur, panicked |-> TRUE]
    ELSE [roots |-> [rs EXCEPT ![idx + 1] = NULL],
          next_empty_idx |-> IF idx < cur THEN idx ELSE cur,
          panicked |-> FALSE]

\* An unroot that counts per object: every slot holding the pointer found
\* at the index is cleared, not only the slot at the index.
RootCollection_unroot_ByObject(rs, cur, idx) ==
    IF idx >= Len(rs) \/ rs[idx + 1] = NULL
    THEN [roots |-> rs, next_empty_idx |-> cur, panicked |-> TRUE]
    ELSE LET cleared == [i \in 1..Len(rs) |-> IF rs[i] = rs[idx + 1] THEN NULL ELSE rs[i]] IN
         IF Len(rs) - 1 # idx
         THEN [roots |-> cleared,
               next_empty_idx |-> IF idx < cur THEN idx ELSE cur,
               panicked |-> FALSE]
         ELSE LET end == TrimTail(cleared, idx) IN
              [roots |-> SubSeq(cleared, 1, end),
               next_empty_idx |-> end,
               panicked |-> FALSE]

\* An unroot without the assert!: only the bounds check panics.
RootCollection_unroot_NoAssert(rs, cur, idx) ==
    IF idx >= Len(rs)
    THEN [roots |-> rs, next_empty_idx |-> cur, panicked |-> TRUE]
    ELSE LET cleared == [rs EXCEPT ![idx + 1] = NULL] IN
         IF Len(rs) - 1 # idx
         THEN [roots |-> cleared,
               next_empty_idx |-> IF idx < cur THEN idx ELSE cur,
               panicked |-> FALSE]
         ELSE LET end == TrimTail(cleared, idx) IN
              [roots |-> SubSeq(cleared, 1, end),
               next_empty_idx |-> end,
               panicked |-> FALSE]

\* RootCollection::unroot: the registry after the call; panicked when the
\* index is out of bounds (roots[idx]) or the assert! fails.
RootCollection_unroot(rs, cur, idx) ==
    IF idx >= Len(rs) \/ rs[idx + 1] = NULL
    THEN [roots |-> rs, next_empty_idx |-> cur, panicked |-> TRUE]
    ELSE LET cleared == [rs EXCEPT ![idx + 1] = NULL] IN
         IF Len(rs) - 1 # idx
         THEN [roots |-> cleared,
               next_empty_idx |-> IF idx < cur THEN idx ELSE cur,
               panicked |-> FALSE]
         ELSE LET end == TrimTail(cleared, idx) IN
              [roots |-> SubSeq(cleared, 1, end),
               next_empty_idx |-> end,
               panicked |-> FALSE]

\* A trace that ends at the first null slot.
RECURSIVE trace_roots_StopAtNull(_, _)
trace_roots_StopAtNull(rs, i) ==
    IF i >= Len(rs) \/ rs[i + 1] = NULL THEN <<>>
    ELSE <<[slot |-> i, obj |-> rs[i + 1]]>> \o trace_roots_StopAtNull(rs, i + 1)

\* A trace without the is_null test: every slot is handed to the tracer.
RECURSIVE trace_roots_NoNullTest(_, _)
trace_roots_NoNullTest(rs, i) ==
    IF i >= Len(rs) THEN <<>>
    ELSE <<[slot |-> i, obj |-> rs[i + 1]]>> \o trace_roots_NoNullTest(rs, i + 1)

\* trace_roots: the slots handed to trace_unbarriered_object, in order.
RECURSIVE trace_roots(_, _)
trace_roots(rs, i) ==
    IF i >= Len(rs) THEN <<>>
    ELSE (IF rs[i + 1] # NULL THEN <<[slot |-> i, obj |-> rs[i + 1]]>> ELSE <<>>)
         \o trace_roots(rs, i + 1)

\* Vec::push: the capacity after pushing onto a Vec of length len.
GrowCapacity(cap, len) == IF len < cap THEN cap ELSE 2 * cap

\* ------------------------------------------------------------------------
\* Handles
\* ------------------------------------------------------------------------
\* The fields of a Root, a DOMVec or a DOMMap.
Handle(obj, slot, idx, t) ==
    [kind |-> KindOf(obj), obj |-> obj, ptr |-> slot, idx |-> idx, root_list |-> t]

\* Root::new, DOMVec::from_jsobject, DOMMap::from_jsobject on thread t:
\* root the object in t's STACK_ROOTS and keep (slot address, index, list).
Root_new(t, obj) ==
    /\ BagCardinality(handles) < MaxHandles
    /\ LET r == RootCollection_root(roots[t], next_empty_idx[t], obj)
           grown == r.pushed /\ Len(roots[t]) = capacity[t]
       IN /\ Len(r.roots) <= MaxSlots + (IF t = "script" THEN outer ELSE 0)
          /\ roots' = [roots EXCEPT ![t] = r.roots]
          /\ next_empty_idx' = [next_empty_idx EXCEPT ![t] = r.next_empty_idx]
          /\ capacity' = [capacity EXCEPT ![t] = IF r.pushed
                                                 THEN GrowCapacity(capacity[t], Len(roots[t]))
                                                 ELSE capacity[t]]
          \* a push beyond the capacity reallocates: the allocator either
          \* extends the block in place or moves it
          /\ \E moved \in (IF grown THEN {FALSE, TRUE} ELSE {FALSE}) :
                /\ buffer' = [buffer EXCEPT ![t] = IF moved THEN buffer[t] + 1 ELSE buffer[t]]
                /\ handles' = handles (+) One(Handle(obj, [buffer |-> buffer'[t], idx |-> r.idx],
                                                      r.idx, t))
    /\ traced' = <<>>
    /\ UNCHANGED outer

\* A Root, DOMVec or DOMMap is created on thread t for one of t's objects.
NewHandle(t, obj) ==
    /\ ~aborted
    /\ Home(obj) = t
    /\ Root_new(t, obj)
    /\ op' = Op("root", t, next_empty_idx'[t], obj)
    /\ UNCHANGED <<aborted, pinVars, elems, props, listVars, glVars>>

\* Drop for Root / DOMVec / DOMMap: (*self.root_list).unroot(self.idx)
DropHandle(x) ==
    /\ ~aborted
    /\ x \in BagToSet(handles)
    /\ LET t == x.root_list
           u == RootCollection_unroot(roots[t], next_empty_idx[t], x.idx)
       IN /\ roots' = [roots EXCEPT ![t] = u.roots]
          /\ next_empty_idx' = [next_empty_idx EXCEPT ![t] = u.next_empty_idx]
          /\ aborted' = u.panicked
          /\ handles' = handles (-) One(x)
          /\ op' = Op("unroot", t, x.idx, x.obj)
    /\ traced' = <<>>
    /\ UNCHANGED <<capacity, buffer, outer, pinVars, elems, props, listVars, glVars>>

\* RootCollection::unroot called with an index no handle holds.
StrayUnroot(t, idx) ==
    /\ ~aborted
    /\ \A x \in BagToSet(handles) : ~(x.root_list = t /\ x.idx = idx)
    /\ ~(t = "script" /\ idx < outer)
    /\ LET u == RootCollection_unroot(roots[t], next_empty_idx[t], idx)
       IN /\ roots' = [roots EXCEPT ![t] = u.roots]
          /\ next_empty_idx' = [next_empty_idx EXCEPT ![t] = u.next_empty_idx]
          /\ aborted' = u.panicked
          /\ op' = Op("stray_unroot", t, idx, NULL)
    /\ traced' = <<>>
    /\ UNCHANGED <<capacity, buffer, handles, outer, pinVars, elems, props, listVars, glVars>>

\* trace_roots called by the collector on thread t.
TraceRoots(t) ==
    /\ ~aborted
    /\ traced' = trace_roots(roots[t], 0)
    /\ op' = Op("trace", t, 0, NULL)
    /\ UNCHANGED <<roots, next_empty_idx, capacity, buffer, handles, outer, aborted, pinVars, elems, props, listVars, glVars>>

\* Root::upcast: mem::transmute(root), the fields of the Root are kept.
Root_upcast(x) ==
    /\ ~aborted
    /\ x \in BagToSet(handles)
    /\ x.kind = "Root"
    /\ op' = Op("upcast", x.root_list, x.idx, x.obj)
    /\ traced' = <<>>
    /\ UNCHANGED <<roots, next_empty_idx, capacity, buffer, handles, outer, aborted, pinVars, elems, props, listVars, glVars>>

\* A downcast that lets the Root go out of scope whatever the type test says.
downcast_drops_Always(is_U) == TRUE

\* Root::downcast: the Root taken by value is moved into Some(..) when
\* root.is::<U>() holds; in the else branch it goes out of scope.
downcast_drops(is_U) == ~is_U

\* Root::downcast, is_U the outcome of root.is::<U>().
Root_downcast(x, is_U) ==
    /\ ~aborted
    /\ x \in BagToSet(handles)
    /\ x.kind = "Root"
    /\ LET t == x.root_list
           u == IF downcast_drops(is_U)
                THEN RootCollection_unroot(roots[t], next_empty_idx[t], x.idx)
                ELSE [roots |-> roots[t], next_empty_idx |-> next_empty_idx[t],
                      panicked |-> FALSE]
       IN /\ roots' = [roots EXCEPT ![t] = u.roots]
          /\ next_empty_idx' = [next_empty_idx EXCEPT ![t] = u.next_empty_idx]
          /\ aborted' = u.panicked
          /\ handles' = IF is_U THEN handles ELSE handles (-) One(x)
          /\ op' = Op(IF is_U THEN "downcast_some" ELSE "downcast_none", t, x.idx, x.obj)
    /\ traced' = <<>>
    /\ UNCHANGED <<capacity, buffer, outer, pinVars, elems, props, listVars, glVars>>

\* The innermost of the enclosing frames returns: Drop for its Root.
DropOuter ==
    /\ ~aborted
    /\ outer > RootsCapacity - MaxOuterDrops
    /\ LET u == RootCollection_unroot(roots["script"], next_empty_idx["script"], outer - 1)
       IN /\ roots' = [roots EXCEPT !["script"] = u.roots]
          /\ next_empty_idx' = [next_empty_idx EXCEPT !["script"] = u.next_empty_idx]
          /\ aborted' = u.panicked
          /\ op' = Op("unroot", "script", outer - 1, "a")
    /\ outer' = outer - 1
    /\ traced' = <<>>
    /\ UNCHANGED <<capacity, buffer, handles, pinVars, elems, props, listVars, glVars>>

\* ------------------------------------------------------------------------
\* DOMVec: a vector kept in the elements of a JS array (js.rs)
\* ------------------------------------------------------------------------
\* JSVals: undefined, and the object values.
UndefinedValue == [tag |-> "undefined", obj |-> NULL]
ObjectValue(o) == [tag |-> "object", obj |-> o]
is_object(val) == val.tag = "object"

\* The DOM objects stored in a DOMVec<JS<T>>: "a" is a plain reflector,
\* "b" belongs to a class with a proxy_slot, which holds its proxy.
ElemObjs == {"a", "b"}
ProxyOf(o) == IF o = "b" THEN "proxy_b" ELSE NULL
is_dom_proxy(o) == o = "proxy_b"
GetProxyExtra(o) == IF o = "proxy_b" THEN "b" ELSE NULL

\* JSValConversion for JS<T>
get_jsval(ptr) == IF ProxyOf(ptr) # NULL THEN ObjectValue(ProxyOf(ptr)) ELSE ObjectValue(ptr)
from_jsval(val) == IF is_dom_proxy(val.obj) THEN GetProxyExtra(val.obj) ELSE val.obj

\* Option<T>
None == [some |-> FALSE, val |-> NULL]
Some(v) == [some |-> TRUE, val |-> v]

\* The array operations of the JS engine used by DOMVec; holes read as
\* undefined, a write past the end or a longer length leaves holes.
Holes(n) == [k \in 1..n |-> UndefinedValue]
JS_GetArrayLength(arr) == Len(arr)
JS_GetElement(arr, idx) == IF idx < Len(arr) THEN arr[idx + 1] ELSE UndefinedValue
JS_SetElement(arr, idx, val) ==
    IF idx < Len(arr) THEN [arr EXCEPT ![idx + 1] = val]
    ELSE arr \o Holes(idx - Len(arr)) \o <<val>>
JS_SetArrayLength(arr, n) ==
    IF n <= Len(arr) THEN SubSeq(arr, 1, n) ELSE arr \o Holes(n - Len(arr))

\* DOMVec::len
DOMVec_len(arr) == JS_GetArrayLength(arr)

\* DOMVec::get
DOMVec_get(arr, idx) ==
    LET val == JS_GetElement(arr, idx) IN
    IF ~is_object(val) THEN None ELSE Some(from_jsval(val))

\* DOMVec::set
DOMVec_set(arr, idx, obj) == JS_SetElement(arr, idx, get_jsval(obj))

\* DOMVec::clear
DOMVec_clear(arr) == JS_SetArrayLength(arr, 0)

\* A remove that shifts the elements after the index down by one.
DOMVec_remove_Shift(arr, idx) ==
    LET len == DOMVec_len(arr) IN
    IF len <= 1 THEN DOMVec_clear(arr)
    ELSE IF idx + 1 = len THEN JS_SetArrayLength(arr, len - 1)
    ELSE [k \in 1..(len - 1) |-> IF k <= idx THEN arr[k] ELSE arr[k + 1]]

\* DOMVec::remove
DOMVec_remove(arr, idx) ==
    LET len == DOMVec_len(arr) IN
    IF len <= 1 THEN DOMVec_clear(arr)
    ELSE IF idx + 1 = len THEN JS_SetArrayLength(arr, len - 1)
    ELSE LET val == JS_GetElement(arr, len - 1) IN
         JS_SetElement(JS_SetArrayLength(arr, len - 1), idx, val)

\* A push that writes to the last element instead of behind it.
DOMVec_push_OnLast(arr, obj) ==
    DOMVec_set(arr, IF DOMVec_len(arr) = 0 THEN 0 ELSE DOMVec_len(arr) - 1, obj)

\* DOMVec::push
DOMVec_push(arr, obj) == DOMVec_set(arr, DOMVec_len(arr), obj)

\* DOMVec::insert: the index is not used
DOMVec_insert(arr, idx, obj) == DOMVec_push(arr, obj)

\* A DOMVec operation on the array behind the handle x changes nothing but
\* the elements of the array.
VecStep(x, name, idx, obj, arr) ==
    /\ ~aborted
    /\ x \in BagToSet(handles)
    /\ x.kind = "DOMVec"
    /\ Len(arr) <= MaxVecLen
    /\ elems' = arr
    /\ op' = Op(name, x.root_list, idx, obj)
    /\ traced' = <<>>
    /\ UNCHANGED <<roots, next_empty_idx, capacity, buffer, handles, outer, aborted, pinVars, props, listVars, glVars>>

VecPush(x, obj) == VecStep(x, "push", DOMVec_len(elems), obj, DOMVec_push(elems, obj))
VecSet(x, idx, obj) == VecStep(x, "set", idx, obj, DOMVec_set(elems, idx, obj))
VecInsert(x, idx, obj) == VecStep(x, "insert", idx, obj, DOMVec_insert(elems, idx, obj))
VecRemove(x, idx) == VecStep(x, "remove", idx, NULL, DOMVec_remove(elems, idx))
VecClear(x) == VecStep(x, "clear", 0, NULL, DOMVec_clear(elems))

\* ------------------------------------------------------------------------
\* DOMMap: a map kept in the properties of a JS object (js.rs)
\* ------------------------------------------------------------------------
\* The keys used with the map; "toString" names a property that every
\* object made by JS_NewObject(cx, null) inherits from Object.prototype.
KeyNames == <<"k", "j", "toString">>
Keys == {KeyNames[i] : i \in 1..Len(KeyNames)}
KeyIndex(key) == CHOOSE i \in 1..Len(KeyNames) : KeyNames[i] = key

\* No property under the key.
Absent == [tag |-> "absent", obj |-> NULL]

\* The properties of Object.prototype, the prototype of the object made by
\* DOMMap::new.
ObjectPrototype ==
    [key \in Keys |-> IF key = "toString" THEN ObjectValue("Object_prototype_toString")
                                           ELSE Absent]

\* JSObjectConversion for JS<T>
JS(o) == [ptr |-> o]
get_jsobj(js) == js.ptr
from_jsobj(o) == JS(o)

\* The property operations of the JS engine used by DOMMap: has and get
\* look along the prototype chain, set defines an own property, delete
\* removes an own property.
JS_HasUCProperty(own, key) == own[key] # Absent \/ ObjectPrototype[key] # Absent
JS_GetUCProperty(own, key) ==
    IF own[key] # Absent THEN own[key]
    ELSE IF ObjectPrototype[key] # Absent THEN ObjectPrototype[key]
    ELSE UndefinedValue
JS_SetUCProperty(own, key, val) == [own EXCEPT ![key] = val]
JS_DeleteUCProperty(own, key) == [own EXCEPT ![key] = Absent]

\* DOMMap::get
DOMMap_get(own, key) ==
    LET val == JS_GetUCProperty(own, key) IN
    IF ~is_object(val) THEN None ELSE Some(from_jsobj(val.obj))

\* DOMMap::remove
DOMMap_remove(own, key) == JS_DeleteUCProperty(own, key)

\* DOMMap::set
DOMMap_set(own, key, val) == JS_SetUCProperty(own, key, ObjectValue(get_jsobj(val)))

\* DOMMap::has
DOMMap_has(own, key) == JS_HasUCProperty(own, key)

\* A DOMMap operation on the object behind the handle x changes nothing but
\* the properties of the object.
MapStep(x, name, key, obj, own) ==
    /\ ~aborted
    /\ x \in BagToSet(handles)
    /\ x.kind = "DOMMap"
    /\ props' = own
    /\ op' = Op(name, x.root_list, KeyIndex(key), obj)
    /\ traced' = <<>>
    /\ UNCHANGED <<roots, next_empty_idx, capacity, buffer, handles, outer, aborted, pinVars, elems, listVars, glVars>>

MapSet(x, key, obj) == MapStep(x, "map_set", key, obj, DOMMap_set(props, key, JS(obj)))
MapRemove(x, key) == MapStep(x, "map_remove", key, NULL, DOMMap_remove(props, key))

\* ------------------------------------------------------------------------

\* ------------------------------------------------------------------------
\* WebGL objects (webglshader.rs, webglbuffer.rs, webglprogram.rs,
\* webgltexture.rs): deletion, and the target of a buffer
\* ------------------------------------------------------------------------
\* One WebGLShader, WebGLBuffer, WebGLProgram and WebGLTexture.
WebGLObjs == {"shader", "buffer", "program", "texture"}

\* The id field: the name the renderer gave the object; names are per type.
IdOf(o) == IF o = "program" THEN 2 ELSE 1

\* constants::ARRAY_BUFFER and constants::ELEMENT_ARRAY_BUFFER
BufferTargets == {34962, 34963}

\* CanvasWebGLMsg::DeleteShader(id), DeleteBuffer(id), DeleteProgram(id),
\* DeleteTexture(id)
DeleteMsg(o) ==
    [name |-> IF o = "shader" THEN "DeleteShader"
              ELSE IF o = "buffer" THEN "DeleteBuffer"
              ELSE IF o = "program" THEN "DeleteProgram"
              ELSE "DeleteTexture",
     target |-> 0, id |-> IdOf(o)]

\* CanvasWebGLMsg::BindBuffer(target, id)
BindBuffer(t, id) == [name |-> "BindBuffer", target |-> t, id |-> id]

\* renderer.send(msg).unwrap(): the message is queued, or the renderer is
\* gone, send returns Err and unwrap panics.
renderer_send(queue, msg, ok) ==
    IF ok THEN [queue |-> Append(queue, msg), panicked |-> FALSE]
    ELSE [queue |-> queue, panicked |-> TRUE]

delete_sends_Always(deleted) == TRUE

\* if !self.is_deleted.get()
delete_sends(deleted) == ~deleted

\* WebGLShader::delete, WebGLBuffer::delete, WebGLProgram::delete and
\* WebGLTextureHelpers::delete; op.idx tells whether the call found the
\* object deleted.
WebGL_delete(o, ok) ==
    LET r == renderer_send(renderer, DeleteMsg(o), ok)
    IN  /\ ~aborted
        /\ IF delete_sends(is_deleted[o])
           THEN /\ is_deleted' = [is_deleted EXCEPT ![o] = TRUE]
                /\ renderer' = r.queue
                /\ aborted' = r.panicked
           ELSE UNCHANGED <<is_deleted, renderer, aborted>>
        /\ op' = Op("delete", "script", IF is_deleted[o] THEN 1 ELSE 0, o)
        /\ UNCHANGED <<regVars, pinVars, elems, props, listVars, target>>

\* The messages of the queue that bind the buffer.
RECURSIVE BindCount(_)
BindCount(queue) ==
    IF queue = <<>> THEN 0
    ELSE (IF queue[1].name = "BindBuffer" THEN 1 ELSE 0) + BindCount(Tail(queue))

bind_rejects_Never(previous, t) == FALSE

\* if let Some(previous_target) = self.target.get() { if target != previous_target
bind_rejects(previous, t) == previous.some /\ t # previous.val

\* WebGLBuffer::bind; op.obj is the result.
WebGLBuffer_bind(t, ok) ==
    LET r == renderer_send(renderer, BindBuffer(t, IdOf("buffer")), ok)
    IN  /\ ~aborted
        /\ BindCount(renderer) < MaxBinds
        /\ IF bind_rejects(target, t)
           THEN /\ op' = Op("bind", "script", t, "InvalidOperation")
                /\ UNCHANGED <<target, renderer, aborted>>
           ELSE /\ target' = IF target.some THEN target ELSE Some(t)
                /\ renderer' = r.queue
                /\ aborted' = r.panicked
                /\ op' = Op("bind", "script", t, IF r.panicked THEN "panic" ELSE "Ok")
        /\ UNCHANGED <<regVars, pinVars, elems, props, listVars, is_deleted>>

\* ------------------------------------------------------------------------
\* ChildrenList (nodelist.rs): the live list of the children of a node,
\* with a cache of the child visited last
\* ------------------------------------------------------------------------
NodeNames == <<"n1", "n2", "n3", "n4", "n5", "n6">>
Nodes == {NodeNames[i] : i \in 1..(MaxChildren + 1)}

\* u32 arithmetic.  A u32 is held as the integer congruent to it modulo
\* 2^32 that is nearest to zero, so that 2^32 - 1, the result of 0 - 1, is
\* held as -1: addition and subtraction wrap as the integer operations, and
\* the order and the division see a negative integer as the large value.
u32_lt(x, y) == IF (x < 0) = (y < 0) THEN x < y ELSE y < 0
u32_le(x, y) == x = y \/ u32_lt(x, y)
u32_half(x) == IF x >= 0 THEN x \div 2 ELSE 2147483647 + (1 + (x \div 2))

\* The position of the node n among the children cs, -1 for a node that
\* is not a child.
IndexOf(cs, n) ==
    IF \E i \in 1..Len(cs) : cs[i] = n
    THEN (CHOOSE i \in 1..Len(cs) : cs[i] = n) - 1
    ELSE -1

GetFirstChild(cs) == IF cs = <<>> THEN NULL ELSE cs[1]
GetLastChild(cs) == IF cs = <<>> THEN NULL ELSE cs[Len(cs)]

\* n.inclusively_following_siblings().nth(k): n itself for k = 0, None past
\* the last sibling (k < 0 holds a count of 2^31 or more); a node outside
\* the tree has no sibling.
inclusively_following_siblings_nth(cs, n, k) ==
    IF n = NULL THEN NULL
    ELSE IF k = 0 THEN n
    ELSE IF k > 0 /\ IndexOf(cs, n) >= 0 /\ IndexOf(cs, n) + k < Len(cs) THEN cs[IndexOf(cs, n) + k + 1]
    ELSE NULL

\* n.inclusively_preceding_siblings().nth(k)
inclusively_preceding_siblings_nth(cs, n, k) ==
    IF n = NULL THEN NULL
    ELSE IF k = 0 THEN n
    ELSE IF k > 0 /\ IndexOf(cs, n) >= 0 /\ IndexOf(cs, n) - k >= 0 THEN cs[IndexOf(cs, n) - k + 1]
    ELSE NULL

GetNextSibling(cs, n) == inclusively_following_siblings_nth(cs, n, 1)
GetPreviousSibling(cs, n) == inclusively_preceding_siblings_nth(cs, n, 1)

\* The cache of a ChildrenList; panicked: an unwrap() of None or an
\* unreachable!() was hit.
Cache(lv, li) == [last_visited |-> lv, last_index |-> li, panicked |-> FALSE]
Panicked(c) == [c EXCEPT !.panicked = TRUE]

\* ChildrenList::item: the node returned (NULL for None) and the cache
\* after the call.
ChildrenList_item(cs, c, index) ==
    LET len == Len(cs)
        lv == c.last_visited
        li == c.last_index
        unchanged(ret) == [ret |-> ret, cache |-> c]
        found ==
            IF index - 1 = li THEN GetNextSibling(cs, lv)
            ELSE IF li # 0 /\ index = li - 1 THEN GetPreviousSibling(cs, lv)
            ELSE IF u32_lt(li, index) THEN
                IF index <= li + u32_half(len - li)
                THEN inclusively_following_siblings_nth(cs, lv, index - li)
                ELSE inclusively_preceding_siblings_nth(cs, GetLastChild(cs), len - index - 1)
            ELSE IF u32_le(u32_half(li), index)
                THEN inclusively_preceding_siblings_nth(cs, lv, li - index)
            ELSE inclusively_following_siblings_nth(cs, GetFirstChild(cs), index)
    IN  IF index >= len THEN unchanged(NULL)
        ELSE IF index = 0 THEN unchanged(GetFirstChild(cs))
        ELSE IF index = li
            THEN IF lv = NULL THEN [ret |-> NULL, cache |-> Panicked(c)] ELSE unchanged(lv)
        ELSE IF /\ index - 1 # li
                /\ ~(li # 0 /\ index = li - 1)
                /\ u32_lt(li, index)
                /\ index = len - 1
            THEN unchanged(GetLastChild(cs))
        ELSE IF found = NULL THEN [ret |-> NULL, cache |-> Panicked(c)]
        ELSE [ret |-> found, cache |-> Cache(found, index)]

\* ChildrenList::reset
ChildrenList_reset(cs, c) == [c EXCEPT !.last_visited = GetFirstChild(cs), !.last_index = 0]

\* prepend, local to children_changed; added.next_back() is the last of
\* the added nodes.
prepend(c, added, next) ==
    LET len == Len(added)
        index == c.last_index
    IN  IF len = 0 THEN c
        ELSE IF u32_lt(index, len) THEN [c EXCEPT !.last_visited = added[len]]
        ELSE IF u32_le(len, u32_half(index)) THEN [c EXCEPT !.last_index = len + index]
        ELSE [c EXCEPT !.last_visited = next, !.last_index = len]

\* replace, local to children_changed; cs: the children after the
\* mutation, m.added = <<>> for None.
replace(cs, c, m) ==
    LET added_len == Len(m.added)
        index == c.last_index
    IN  IF c.last_visited = NULL THEN Panicked(c)
        ELSE IF m.removed = c.last_visited THEN
            IF m.prev = NULL /\ m.next = NULL THEN Panicked(c)
            ELSE IF m.added # <<>> THEN [c EXCEPT !.last_visited = m.added[1]]
            ELSE IF m.next # NULL THEN [c EXCEPT !.last_visited = m.next]
            ELSE [c EXCEPT !.last_index = index - 1, !.last_visited = m.prev]
        ELSE IF added_len # 1 THEN
            IF m.prev # NULL /\ m.next = NULL THEN c
            ELSE IF m.prev = NULL /\ m.next # NULL THEN
                LET d == [c EXCEPT !.last_index = index - 1]
                IN  IF m.added # <<>> THEN prepend(d, m.added, m.next) ELSE d
            ELSE IF m.prev # NULL /\ m.next # NULL THEN ChildrenList_reset(cs, c)
            ELSE Panicked(c)
        ELSE c

\* The ReplaceAll arm of children_changed
replace_all(c, added) ==
    LET len == Len(added)
        index == c.last_index
        middle == len \div 2
    IN  IF added = <<>> THEN [c EXCEPT !.last_visited = NULL, !.last_index = 0]
        ELSE IF u32_lt(index, len) THEN [c EXCEPT !.last_visited = added[len]]
        ELSE [c EXCEPT !.last_visited = added[middle + 1], !.last_index = middle]

\* ChildrenList::children_changed; cs: the children after the mutation.
children_changed(cs, c, m) ==
    IF m.kind = "Append" THEN c
    ELSE IF m.kind = "Insert" THEN ChildrenList_reset(cs, c)
    ELSE IF m.kind = "Prepend" THEN
        IF m.added # <<>> THEN prepend(c, m.added, m.next) ELSE c
    ELSE IF m.kind = "Replace" THEN replace(cs, c, m)
    ELSE replace_all(c, m.added)

\* A ChildrenMutation value
Mutation(kind, prev, removed, added, next) ==
    [kind |-> kind, prev |-> prev, removed |-> removed, added |-> added, next |-> next]

\* ChildrenMutation::insert: nodes were inserted between prev and next.
ChildrenMutation_insert(prev, added, next) ==
    IF prev = NULL /\ next = NULL THEN Mutation("ReplaceAll", NULL, NULL, added, NULL)
    ELSE IF next = NULL THEN Mutation("Append", prev, NULL, added, NULL)
    ELSE IF prev = NULL THEN Mutation("Prepend", NULL, NULL, added, next)
    ELSE Mutation("Insert", prev, NULL, added, next)

\* ChildrenMutation::replace: the child removed, between prev and next, was
\* replaced by the added nodes; an only child makes it a ReplaceAll.
ChildrenMutation_replace(prev, removed, added, next) ==
    IF prev = NULL /\ next = NULL THEN Mutation("ReplaceAll", NULL, removed, added, NULL)
    ELSE Mutation("Replace", prev, removed, added, next)

\* ChildrenMutation::replace_all
ChildrenMutation_replace_all(added) == Mutation("ReplaceAll", NULL, NULL, added, NULL)

\* The sequences of at most MaxAdded distinct nodes that are not children.
RECURSIVE AddedOfLen(_, _)
AddedOfLen(free, n) ==
    IF n = 0 THEN {<<>>}
    ELSE UNION {{<<x>> \o rest : rest \in AddedOfLen(free \ {x}, n - 1)} : x \in free}

Added(cs, lo, room) ==
    UNION {AddedOfLen(Nodes \ {cs[i] : i \in 1..Len(cs)}, n) : n \in lo..Min(MaxAdded, room)}

ChildAt(cs, i) == IF i >= 0 /\ i < Len(cs) THEN cs[i + 1] ELSE NULL

\* The node's children become cs and the ChildrenList is told the mutation.
ListStep(cs, m) ==
    LET c == children_changed(cs, Cache(last_visited, last_index), m)
    IN  /\ ~aborted
        /\ Len(cs) <= MaxChildren
        /\ children' = cs
        /\ last_visited' = c.last_visited
        /\ last_index' = c.last_index
        /\ aborted' = c.panicked
        /\ op' = Op(m.kind, "script", Len(m.added), m.removed)
        /\ UNCHANGED <<regVars, pinVars, elems, props, glVars>>

\* Nodes are inserted before the child at position pos, or after the last
\* child for pos = Len(children).
NodeInsert(pos, added) ==
    ListStep(SubSeq(children, 1, pos) \o added \o SubSeq(children, pos + 1, Len(children)),
             ChildrenMutation_insert(ChildAt(children, pos - 1), added, ChildAt(children, pos)))

\* The child at position pos is removed and the added nodes, if any, take
\* its place.
NodeReplace(pos, added) ==
    ListStep(SubSeq(children, 1, pos) \o added \o SubSeq(children, pos + 2, Len(children)),
             ChildrenMutation_replace(ChildAt(children, pos - 1), ChildAt(children, pos),
                                      added, ChildAt(children, pos + 1)))

\* All children are replaced by the added nodes.
NodeReplaceAll(added) ==
    /\ children # <<>> \/ added # <<>>
    /\ ListStep(added, ChildrenMutation_replace_all(added))

\* NodeList.item(index) on the children list
ListItem(index) ==
    LET r == ChildrenList_item(children, Cache(last_visited, last_index), index)
    IN  /\ ~aborted
        /\ last_visited' = r.cache.last_visited
        /\ last_index' = r.cache.last_index
        /\ aborted' = r.cache.panicked
        /\ op' = Op("item", "script", index, r.ret)
        /\ UNCHANGED <<regVars, pinVars, elems, props, children, glVars>>


\* ------------------------------------------------------------------------
\* Trusted and LiveDOMReferences (refcounted.rs)
\* ------------------------------------------------------------------------
PinnableObjs == {"a", "b"}

\* (&*live_references) as *const c_void on thread t: the address of the
\* thread's LiveDOMReferences; two threads never share it.
LiveReferencesAddr(t) == <<"LIVE_REFERENCES", t>>

FreeCells == {c \in CellIds : cells[c].strong = 0}
NewCell == CHOOSE c \in FreeCells : \A d \in FreeCells : c <= d

\* A Trusted<T> that is held: its drop has not begun.
Held(objref, owner_thread) ==
    [pc |-> "held", objref |-> objref, owner_thread |-> owner_thread, refcount |-> 0]
HeldTrusted == {x \in BagToSet(trusted) : x.pc = "held"}

\* A clone that copies the pointer without counting it.
ArcClone_NoCount(cs, c) == cs

\* Arc::clone / drop of an Arc: the strong count, the allocation freed at 0.
ArcClone(cs, c) == [cs EXCEPT ![c].strong = @ + 1]
ArcDrop(cs, c) == [cs EXCEPT ![c] = IF @.strong <= 1 THEN NoCell
                                    ELSE [@ EXCEPT !.strong = @ - 1]]

\* table.iter().position(|entry| entry.get() == ptr), -1 for None.
RECURSIVE Position(_, _, _, _)
Position(tbl, cs, ptr, i) ==
    IF i >= Len(tbl) THEN -1
    ELSE IF cs[tbl[i + 1]].ptr = ptr THEN i
    ELSE Position(tbl, cs, ptr, i + 1)

\* A removal that takes the last element out, whatever the index.
swap_remove_Pop(tbl, idx) == SubSeq(tbl, 1, Len(tbl) - 1)

\* Vec::swap_remove: the last element takes the place of the removed one.
swap_remove(tbl, idx) ==
    LET last == Len(tbl) IN
    SubSeq([tbl EXCEPT ![idx + 1] = tbl[last]], 1, last - 1)

\* Drop for Trusted: if refcount <= 2
drop_sends(refcount) == refcount <= 2

\* A cleanup that trusts the message: the entry is removed without a re-check.
cleanup_removes_Always(strong) == TRUE

\* A cleanup that removes the entry whenever at most one other holder is left.
cleanup_removes_AtThree(strong) == strong <= 3

\* LiveDOMReferences::cleanup: if Arc::strong_count(&table[idx]) <= 2
cleanup_removes(strong) == strong <= 2

\* A thread check that accepts every thread.
owner_matches_Always(owner_thread, t) == TRUE

\* Trusted::root: self.owner_thread == (&*live_references) as *const c_void
owner_matches(owner_thread, t) == owner_thread = LiveReferencesAddr(t)

\* The counters of the history count 0, 1, more.
Bump(n) == IF n < 2 THEN n + 1 ELSE n

\* The history of a cell ends with its allocation.
Forget(hs, cs) == [c \in CellIds |-> IF cs[c].strong = 0 THEN NoHist ELSE hs[c]]

\* An addref that never looks the pointer up: every call allocates an Arc
\* and pushes an entry.
addref_AlwaysNew(tbl, cs, ptr, fresh) ==
    [table |-> Append(tbl, fresh),
     cells |-> [cs EXCEPT ![fresh] = [ptr |-> ptr, strong |-> 2]],
     objref |-> fresh]

\* LiveDOMReferences::addref: the existing entry for ptr is cloned, else a
\* new Arc is allocated and a clone of it pushed onto the table.
addref(tbl, cs, ptr, fresh) ==
    LET pos == Position(tbl, cs, ptr, 0) IN
    IF pos >= 0
    THEN [table |-> tbl, cells |-> ArcClone(cs, tbl[pos + 1]), objref |-> tbl[pos + 1]]
    ELSE [table |-> Append(tbl, fresh),
          cells |-> [cs EXCEPT ![fresh] = [ptr |-> ptr, strong |-> 2]],
          objref |-> fresh]

\* Trusted::new on thread t for one of t's DOM objects.
Trusted_new(t, obj) ==
    /\ ~aborted
    /\ Home(obj) = t
    /\ BagCardinality(trusted) < MaxTrusted
    /\ FreeCells # {}
    /\ LET r == addref(table[t], cells, obj, NewCell) IN
       /\ table' = [table EXCEPT ![t] = r.table]
       /\ cells' = r.cells
       /\ trusted' = trusted (+) One(Held(r.objref, LiveReferencesAddr(t)))
       /\ hist' = [hist EXCEPT ![r.objref].pins = Bump(@)]
       /\ op' = Op("pin", t, r.objref, obj)
    /\ UNCHANGED <<regVars, aborted, script_chan, port_open, elems, props, listVars, glVars>>

\* The thread the script_chan of a Trusted leads to: the one it was made on.
ChanOf(x) == CHOOSE t \in Threads : LiveReferencesAddr(t) = x.owner_thread

\* Clone for Trusted, on any thread.
Trusted_clone(x) ==
    /\ ~aborted
    /\ x \in HeldTrusted
    /\ BagCardinality(trusted) < MaxTrusted
    /\ cells' = ArcClone(cells, x.objref)
    /\ trusted' = trusted (+) One(Held(x.objref, x.owner_thread))
    /\ op' = Op("clone", ChanOf(x), x.objref, cells[x.objref].ptr)
    /\ UNCHANGED <<regVars, aborted, table, script_chan, port_open, hist, elems, props, listVars, glVars>>

\* Drop for Trusted, first step: let refcount = Arc::strong_count(&self.objref)
Trusted_drop_read(x) ==
    /\ ~aborted
    /\ x \in HeldTrusted
    /\ trusted' = (trusted (-) One(x))
                  (+) One([x EXCEPT !.pc = "read", !.refcount = cells[x.objref].strong])
    /\ op' = Op("drop_read", ChanOf(x), x.objref, cells[x.objref].ptr)
    /\ UNCHANGED <<regVars, aborted, table, cells, script_chan, port_open, hist, elems, props, listVars, glVars>>

\* ScriptChan::send: the message is queued while the receiving end exists,
\* else the send fails and the message is handed back.
send(q, open, msg) ==
    IF open THEN [chan |-> Append(q, msg), ok |-> TRUE]
            ELSE [chan |-> q, ok |-> FALSE]

\* A drop that unwraps the result of the send.
drop_aborts_Unwrap(ok) == ~ok

\* Drop for Trusted: let _ = self.script_chan.send(msg), the result is
\* discarded.
drop_aborts(ok) == FALSE

\* Drop for Trusted, second step: the body of if refcount <= 2, which
\* clones the Arc into a RefcountCleanup message and sends it; a message
\* that could not be sent is dropped, and its Arc with it.
Trusted_drop_send(x) ==
    /\ ~aborted
    /\ x \in BagToSet(trusted)
    /\ x.pc = "read"
    /\ IF drop_sends(x.refcount)
       THEN LET t == ChanOf(x)
                msg == ArcClone(cells, x.objref)
                r == send(script_chan[t], port_open[t], x.objref)
            IN /\ script_chan' = [script_chan EXCEPT ![t] = r.chan]
               /\ cells' = IF r.ok THEN msg ELSE ArcDrop(msg, x.objref)
               /\ hist' = IF r.ok THEN [hist EXCEPT ![x.objref].sent = Bump(@)] ELSE hist
               /\ aborted' = drop_aborts(r.ok)
               /\ op' = Op(IF r.ok THEN "drop_send" ELSE "drop_send_failed",
                           t, x.objref, cells[x.objref].ptr)
       ELSE /\ UNCHANGED <<cells, script_chan, hist, aborted>>
            /\ op' = Op("drop_skip", ChanOf(x), x.objref, cells[x.objref].ptr)
    /\ trusted' = (trusted (-) One(x)) (+) One([x EXCEPT !.pc = "sent"])
    /\ UNCHANGED <<regVars, table, port_open, elems, props, listVars, glVars>>

\* Drop for Trusted, last step: the fields are dropped, the Arc among them.
Trusted_drop_release(x) ==
    /\ ~aborted
    /\ x \in BagToSet(trusted)
    /\ x.pc = "sent"
    /\ cells' = ArcDrop(cells, x.objref)
    /\ trusted' = trusted (-) One(x)
    /\ hist' = Forget(hist, cells')
    /\ op' = Op("drop_release", ChanOf(x), x.objref, cells[x.objref].ptr)
    /\ UNCHANGED <<regVars, aborted, table, script_chan, port_open, elems, props, listVars, glVars>>

\* LiveDOMReferences::cleanup on thread t for the next RefcountCleanup message.
cleanup(t) ==
    /\ ~aborted
    /\ script_chan[t] # <<>>
    /\ LET objref == Head(script_chan[t])
           pos == Position(table[t], cells, cells[objref].ptr, 0)
       IN /\ script_chan' = [script_chan EXCEPT ![t] = Tail(@)]
          /\ IF pos >= 0
             THEN LET entry == table[t][pos + 1]
                      removes == cleanup_removes(cells[entry].strong)
                      afterTable == IF removes THEN ArcDrop(cells, entry) ELSE cells
                  IN /\ table' = [table EXCEPT ![t] = IF removes THEN swap_remove(@, pos) ELSE @]
                     /\ cells' = ArcDrop(afterTable, objref)
                     /\ hist' = Forget([hist EXCEPT ![objref].handled = 1], cells')
                     /\ aborted' = FALSE
                     /\ op' = Op(IF removes THEN "cleanup_removed" ELSE "cleanup_kept",
                                 t, objref, cells[objref].ptr)
             ELSE \* unreachable!("Attempted to remove a non-existant reference")
                  /\ table' = table
                  /\ cells' = ArcDrop(cells, objref)
                  /\ hist' = Forget(hist, cells')
                  /\ aborted' = TRUE
                  /\ op' = Op("cleanup_unreachable", t, objref, cells[objref].ptr)
    /\ UNCHANGED <<regVars, trusted, port_open, elems, props, listVars, glVars>>

\* Trusted::root called on thread t (the handle may have been sent there).
Trusted_root(x, t) ==
    /\ ~aborted
    /\ x \in HeldTrusted
    /\ IF owner_matches(x.owner_thread, t)
       THEN /\ Len(roots[t]) < MaxResolved
            /\ Root_new(t, cells[x.objref].ptr)
            /\ aborted' = FALSE
            /\ op' = Op("trusted_root", t, next_empty_idx'[t], cells[x.objref].ptr)
       ELSE \* the assert! fails
            /\ aborted' = TRUE
            /\ op' = Op("trusted_root", t, 0, cells[x.objref].ptr)
            /\ UNCHANGED regVars
    /\ UNCHANGED <<pinVars, elems, props, listVars, glVars>>

\* The Arcs of the messages of a queue are dropped.
RECURSIVE DropAll(_, _)
DropAll(cs, q) == IF q = <<>> THEN cs ELSE DropAll(ArcDrop(cs, Head(q)), Tail(q))

\* Thread t shuts its event loop down: the receiving end of its channel is
\* dropped and the messages still queued with it.
ClosePort(t) ==
    /\ ~aborted
    /\ port_open[t]
    /\ port_open' = [port_open EXCEPT ![t] = FALSE]
    /\ cells' = DropAll(cells, script_chan[t])
    /\ script_chan' = [script_chan EXCEPT ![t] = <<>>]
    /\ hist' = Forget(hist, cells')
    /\ op' = Op("close", t, 0, NULL)
    /\ UNCHANGED <<regVars, aborted, table, trusted, elems, props, listVars, glVars>>

\* ------------------------------------------------------------------------
\* Specifications
\* ------------------------------------------------------------------------

\* LiveDOMReferences::initialize on every thread, no Trusted yet.
InitPins ==
    /\ table = [t \in Threads |-> <<>>]
    /\ cells = [c \in CellIds |-> NoCell]
    /\ trusted = EmptyBag
    /\ script_chan = [t \in Threads |-> <<>>]
    /\ port_open = [t \in Threads |-> TRUE]
    /\ hist = [c \in CellIds |-> NoHist]

\* ChildrenList::new on a node without children
InitList ==
    /\ children = <<>>
    /\ last_visited = GetFirstChild(<<>>)
    /\ last_index = 0

\* No WebGL object deleted, the buffer never bound, nothing sent.
InitGL ==
    /\ is_deleted = [o \in WebGLObjs |-> FALSE]
    /\ target = None
    /\ renderer = <<>>

\* RootCollection::new on every thread, no handle yet.
Init ==
    /\ roots = [t \in Threads |-> <<>>]
    /\ next_empty_idx = [t \in Threads |-> 0]
    /\ capacity = [t \in Threads |-> RootsCapacity]
    /\ buffer = [t \in Threads |-> 0]
    /\ handles = EmptyBag
    /\ outer = 0
    /\ traced = <<>>
    /\ aborted = FALSE
    /\ op = Op("init", "script", 0, NULL)
    /\ elems = <<>>
    /\ props = [key \in Keys |-> Absent]
    /\ InitList
    /\ InitGL
    /\ InitPins

Next ==
    \/ \E t \in Threads, obj \in Objs : NewHandle(t, obj)
    \/ \E x \in BagToSet(handles) : DropHandle(x)
    \/ \E t \in Threads, idx \in 0..MaxSlots : StrayUnroot(t, idx)
    \/ \E t \in Threads : TraceRoots(t)

Spec == Init /\ [][Next]_vars

\* The script thread RootsCapacity frames deep: every enclosing frame roots
\* "a" once, so the reserved capacity is exactly used up.
InitFull ==
    /\ roots = [t \in Threads |-> IF t = "script" THEN [i \in 1..RootsCapacity |-> "a"] ELSE <<>>]
    /\ next_empty_idx = [t \in Threads |-> IF t = "script" THEN RootsCapacity - 1 ELSE 0]
    /\ capacity = [t \in Threads |-> RootsCapacity]
    /\ buffer = [t \in Threads |-> 0]
    /\ handles = EmptyBag
    /\ outer = RootsCapacity
    /\ traced = <<>>
    /\ aborted = FALSE
    /\ op = Op("init", "script", 0, NULL)
    /\ elems = <<>>
    /\ props = [key \in Keys |-> Absent]
    /\ InitList
    /\ InitGL
    /\ InitPins

NextFull ==
    \/ \E obj \in {"a", "b"} : NewHandle("script", obj)
    \/ \E x \in BagToSet(handles) : DropHandle(x)
    \/ DropOuter

SpecFull == InitFull /\ [][NextFull]_vars

\* Pinning: Trusted handles made, cloned and dropped on any thread, cleanup
\* messages handled by the thread they were sent to.
NextTrusted ==
    \/ \E t \in Threads, obj \in PinnableObjs : Trusted_new(t, obj)
    \/ \E x \in BagToSet(trusted) : Trusted_clone(x)
    \/ \E x \in BagToSet(trusted) : Trusted_drop_read(x)
    \/ \E x \in BagToSet(trusted) : Trusted_drop_send(x)
    \/ \E x \in BagToSet(trusted) : Trusted_drop_release(x)
    \/ \E t \in Threads : cleanup(t)

SpecTrusted == Init /\ [][NextTrusted]_vars

\* Pinning and resolving between two turns of the owner's event loop (no
\* cleanup message is handled): a held Trusted is resolved into a Root on
\* any thread; the Root is dropped later.
NextResolve ==
    \/ \E t \in Threads, obj \in PinnableObjs : Trusted_new(t, obj)
    \/ \E x \in BagToSet(trusted) : Trusted_clone(x)
    \/ \E x \in BagToSet(trusted) : Trusted_drop_read(x)
    \/ \E x \in BagToSet(trusted) : Trusted_drop_send(x)
    \/ \E x \in BagToSet(trusted) : Trusted_drop_release(x)
    \/ \E x \in BagToSet(trusted), t \in Threads : Trusted_root(x, t)
    \/ \E x \in BagToSet(handles) : DropHandle(x)

SpecResolve == Init /\ [][NextResolve]_vars

\* Roots created, cast and dropped.
NextCast ==
    \/ \E t \in Threads, obj \in Objs : NewHandle(t, obj)
    \/ \E x \in BagToSet(handles) : DropHandle(x)
    \/ \E x \in BagToSet(handles) : Root_upcast(x)
    \/ \E x \in BagToSet(handles), is_U \in BOOLEAN : Root_downcast(x, is_U)

SpecCast == Init /\ [][NextCast]_vars

\* A DOMVec over the array "arr" is made, used and dropped on the script
\* thread, one DOMVec at a time; the array outlives it.
NextVec ==
    \/ handles = EmptyBag /\ NewHandle("script", "arr")
    \/ \E x \in BagToSet(handles) : DropHandle(x)
    \/ \E x \in BagToSet(handles), obj \in ElemObjs : VecPush(x, obj)
    \/ \E x \in BagToSet(handles), idx \in 0..Min(MaxVecLen - 1, Len(elems) + 1), obj \in ElemObjs :
          VecSet(x, idx, obj)
    \/ \E x \in BagToSet(handles), idx \in 0..Min(MaxVecLen - 1, Len(elems)), obj \in ElemObjs :
          VecInsert(x, idx, obj)
    \/ \E x \in BagToSet(handles), idx \in 0..(MaxVecLen - 1) : VecRemove(x, idx)
    \/ \E x \in BagToSet(handles) : VecClear(x)

SpecVec == Init /\ [][NextVec]_vars

\* A DOMMap over the object "map" is made, used and dropped on the script
\* thread, one DOMMap at a time; the object outlives it.
NextMap ==
    \/ handles = EmptyBag /\ NewHandle("script", "map")
    \/ \E x \in BagToSet(handles) : DropHandle(x)
    \/ \E x \in BagToSet(handles), key \in Keys, obj \in ElemObjs : MapSet(x, key, obj)
    \/ \E x \in BagToSet(handles), key \in Keys : MapRemove(x, key)

SpecMap == Init /\ [][NextMap]_vars

\* The children of a node change while its ChildrenList is read.
NextChildren ==
    \/ \E pos \in 0..Len(children) :
         \E added \in Added(children, 1, MaxChildren - Len(children)) : NodeInsert(pos, added)
    \/ \E pos \in 0..(Len(children) - 1) :
         \E added \in Added(children, 0, MaxChildren + 1 - Len(children)) : NodeReplace(pos, added)
    \/ \E added \in Added(children, 0, MaxChildren) : NodeReplaceAll(added)
    \/ \E index \in 0..Len(children) : ListItem(index)

SpecChildren == Init /\ [][NextChildren]_vars

\* WebGL objects are deleted, any number of times, and the buffer is bound.
NextGL ==
    \/ \E o \in WebGLObjs, ok \in BOOLEAN : WebGL_delete(o, ok)
    \/ \E t \in BufferTargets, ok \in BOOLEAN : WebGLBuffer_bind(t, ok)

SpecGL == Init /\ [][NextGL]_vars

\* The threads that own a pinnable object.
Owners == {Home(obj) : obj \in PinnableObjs}

\* Pinning while the owning thread shuts down: its channel is closed at
\* some point, Trusted handles are still dropped afterwards.
NextShutdown ==
    \/ \E t \in Threads, obj \in PinnableObjs : Trusted_new(t, obj)
    \/ \E x \in BagToSet(trusted) : Trusted_clone(x)
    \/ \E x \in BagToSet(trusted) : Trusted_drop_read(x)
    \/ \E x \in BagToSet(trusted) : Trusted_drop_send(x)
    \/ \E x \in BagToSet(trusted) : Trusted_drop_release(x)
    \/ \E t \in Threads : cleanup(t)
    \/ \E t \in Owners : ClosePort(t)

SpecShutdown == Init /\ [][NextShutdown]_vars

\* ------------------------------------------------------------------------
\* Properties of the stack root registry
\* ------------------------------------------------------------------------
LiveSlots(rs) == {i \in 0..(Len(rs) - 1) : rs[i + 1] # NULL}
Tombstones(rs) == {i \in 0..(Len(rs) - 1) : rs[i + 1] = NULL}
\* The number of handles in existence that were rooted in t's registry.
RECURSIVE CountOn(_, _)
CountOn(t, S) ==
    IF S = {} THEN 0
    ELSE LET x == CHOOSE y \in S : TRUE IN
         (IF x.root_list = t THEN CopiesIn(x, handles) ELSE 0) + CountOn(t, S \ {x})
HandlesOn(t) == CountOn(t, BagToSet(handles))
OuterOn(t) == IF t = "script" THEN outer ELSE 0
IsLive(rs, idx) == idx < Len(rs) /\ rs[idx + 1] # NULL

\* C1: after every prefix of root and unroot calls made by creating and
\* dropping Root, DOMVec and DOMMap handles, the number of non-null slots
\* of a registry equals the number of handles created and not yet dropped.
C1_LiveSlotsEqualHandles ==
    \A t \in Threads :
        Cardinality(LiveSlots(roots[t])) = HandlesOn(t) + OuterOn(t)

\* A handle was dropped leaving a tombstone below two other live handles.
C1_Witness ==
    /\ op.name = "unroot"
    /\ HandlesOn("script") = 2
    /\ Tombstones(roots["script"]) # {}

\* C2: while a handle exists, the slot at its index holds the pointer of
\* the object it was created for, and no two handles share a slot.
C2_SlotHoldsObject ==
    /\ \A x \in BagToSet(handles) :
          /\ x.idx < Len(roots[x.root_list])
          /\ roots[x.root_list][x.idx + 1] = x.obj
          /\ x.obj # NULL
          /\ CopiesIn(x, handles) = 1
    /\ \A x, y \in BagToSet(handles) :
          (x # y /\ x.root_list = y.root_list) => x.idx # y.idx

\* A root reused a tombstone while two older handles of other objects live on.
C2_Witness ==
    /\ op.name = "root"
    /\ op.idx < Len(roots[op.t]) - 1
    /\ HandlesOn(op.t) = 3
    /\ \E x \in BagToSet(handles) : x.root_list = op.t /\ x.obj # op.obj

\* C3: the slot address a handle got from root stays the address of its
\* slot until the matching unroot: no later root moves the backing store.
C3_SlotAddressStable ==
    /\ \A x \in BagToSet(handles) :
          x.ptr = [buffer |-> buffer[x.root_list], idx |-> x.idx]
    \* the Roots of the enclosing frames were issued from the first allocation
    /\ outer > 0 => buffer["script"] = 0

\* C7: unroot(index) on a slot that is not live panics and leaves the slots
\* and the cursor as they were.
C7_UnrootNotLiveAborts ==
    [][(op'.name = "stray_unroot" /\ ~IsLive(roots[op'.t], op'.idx))
          => /\ aborted'
             /\ roots' = roots
             /\ next_empty_idx' = next_empty_idx]_vars

\* unroot was called on a tombstone inside the registry.
C7_Witness ==
    /\ op.name = "stray_unroot"
    /\ aborted
    /\ op.idx < Len(roots[op.t])
    /\ roots[op.t][op.idx + 1] = NULL

\* C8: trace_roots reports every non-null slot exactly once, reports no
\* tombstone, and leaves the slots and the cursor unchanged.
C8_TraceReportsLiveSlotsOnce ==
    [][op'.name = "trace"
          => LET rs == roots[op'.t] IN
             /\ \A i \in LiveSlots(rs) :
                   Cardinality({k \in 1..Len(traced') : traced'[k].slot = i}) = 1
             /\ \A k \in 1..Len(traced') :
                   /\ traced'[k].slot \in LiveSlots(rs)
                   /\ traced'[k].obj = rs[traced'[k].slot + 1]
             /\ roots' = roots
             /\ next_empty_idx' = next_empty_idx]_vars

\* A trace of a registry that holds two live slots and a tombstone.
C8_Witness ==
    /\ op.name = "trace"
    /\ Len(traced) = 2
    /\ Tombstones(roots[op.t]) # {}

\* C9: unroot of the last slot removes all trailing tombstones: the length
\* becomes one more than the highest live index, or 0 when nothing is live.
HighestLive(rs) ==
    IF LiveSlots(rs) = {} THEN -1
    ELSE CHOOSE i \in LiveSlots(rs) : \A j \in LiveSlots(rs) : j <= i

C9_UnrootLastTrimsTail ==
    [][(op'.name = "unroot" /\ op'.idx = Len(roots[op'.t]) - 1)
          => Len(roots'[op'.t]) = HighestLive(roots'[op'.t]) + 1]_vars

\* A, B, C rooted, B then C unrooted: the registry has length 1.
C9_Witness ==
    /\ op.name = "unroot"
    /\ op.idx = 2
    /\ Len(roots[op.t]) = 1
    /\ roots[op.t][1] # NULL

\* C10: unroot sets the cursor to the minimum of its previous value and the
\* index, lowered to the new length when trimming shortens the registry
\* below that; no unroot leaves the cursor larger than it was.
C10_CursorIsMinimum ==
    [][op'.name = "unroot"
          => next_empty_idx'[op'.t] =
                Min(Min(next_empty_idx[op'.t], op'.idx), Len(roots'[op'.t]))]_vars

\* The entries of a trace that report the object.
Reported(tr, obj) == {k \in 1..Len(tr) : tr[k].obj = obj}

\* The handles still in existence that root the object in t's registry.
HandlesOf(hs, t, obj) == {x \in BagToSet(hs) : x.root_list = t /\ x.obj = obj}

\* C11: handles rooting the same object each occupy their own slot;
\* dropping one of them clears only its own slot, every other live slot
\* keeps its pointer, and trace_roots still reports the object once for
\* every handle of it that remains.
C11_SameObjectRootsAdditive ==
    [][(op'.name = "unroot" /\ HandlesOf(handles', op'.t, op'.obj) # {})
          => LET t == op'.t
                 rest == HandlesOf(handles', t, op'.obj)
             IN /\ ~aborted'
                /\ ~IsLive(roots'[t], op'.idx)
                /\ \A i \in LiveSlots(roots[t]) \ {op'.idx} :
                      /\ i < Len(roots'[t])
                      /\ roots'[t][i + 1] = roots[t][i + 1]
                /\ \A x, y \in rest : x # y => x.idx # y.idx
                /\ \A x \in rest :
                      /\ CopiesIn(x, handles') = 1
                      /\ [slot |-> x.idx, obj |-> x.obj]
                            \in {trace_roots(roots'[t], 0)[k] :
                                    k \in Reported(trace_roots(roots'[t], 0), x.obj)}
                /\ Cardinality(Reported(trace_roots(roots'[t], 0), op'.obj))
                      = Cardinality(rest)]_vars

\* Three handles root "a"; the one in the lowest slot was dropped.
C11_Witness ==
    /\ op.name = "unroot"
    /\ op.idx = 0
    /\ Cardinality(HandlesOf(handles, op.t, op.obj)) = 2
    /\ Len(roots[op.t]) = 3

\* ------------------------------------------------------------------------
\* Properties of Trusted and the live-reference table
\* ------------------------------------------------------------------------
TableCells(t) == {table[t][i] : i \in 1..Len(table[t])}
TrustedOf(c) == {x \in BagToSet(trusted) : x.objref = c}

\* C4: while a Trusted (the original or a clone, on any thread, its Arc not
\* yet released) exists for an object, the table of the owning thread has
\* an entry for the object; no cleanup removes it.
C4_OutstandingImpliesEntry ==
    \A x \in BagToSet(trusted) :
        /\ x.objref \in TableCells(ChanOf(x))
        /\ cells[x.objref].strong > 0
        /\ cells[x.objref].ptr \in PinnableObjs

\* A cleanup message was handled while a Trusted for its object existed.
C4_Witness ==
    /\ op.name = "cleanup_kept"
    /\ \E x \in BagToSet(trusted) : cells[x.objref].ptr = op.obj

\* C5: for one pinned handle and its clones, once all of them have been
\* dropped exactly one cleanup message has been sent, and once the owning
\* thread has handled it the table has no entry for the object.
C5_OneMessageThenRemoved ==
    \A c \in CellIds :
        (cells[c].strong > 0 /\ hist[c].pins = 1 /\ TrustedOf(c) = {})
            => /\ hist[c].sent = 1
               /\ hist[c].handled = 1 => \A t \in Threads : c \notin TableCells(t)

\* C6: Trusted::root on a thread other than the one the handle was made on
\* panics and roots nothing in any registry; on the owning thread it returns
\* a Root whose slot holds the pinned object's pointer.
C6_RootOnlyOnOwner ==
    [][op'.name = "trusted_root"
          => IF op'.t # Home(op'.obj)
             THEN /\ aborted'
                  /\ roots' = roots
                  /\ next_empty_idx' = next_empty_idx
                  /\ handles' = handles
             ELSE /\ ~aborted'
                  /\ \E x \in BagToSet(handles') :
                        /\ handles' = handles (+) One(x)
                        /\ x.kind = "Root"
                        /\ x.obj = op'.obj
                        /\ x.root_list = op'.t
                        /\ x.idx = op'.idx
                  /\ op'.idx < Len(roots'[op'.t])
                  /\ roots'[op'.t][op'.idx + 1] = op'.obj
                  /\ op'.obj \in PinnableObjs]_vars

\* A Trusted made on the script thread was resolved on the worker thread.
C6_Witness ==
    /\ op.name = "trusted_root"
    /\ op.t = "worker"
    /\ Home(op.obj) = "script"
    /\ aborted

\* The sub-bag of the elements of a bag that lie in S, and its size.
Only(B, S) == [x \in BagToSet(B) \cap S |-> B[x]]
CountIn(B, S) == BagCardinality(Only(B, S))

\* The drops for cell c that have sent their message and still hold their Arc.
Unreleased(c) == {x \in BagToSet(trusted) :
                    x.objref = c /\ x.pc = "sent" /\ drop_sends(x.refcount)}
\* The number of messages for cell c in the channel of thread t.
MessagesFor(t, c) == Cardinality({k \in 1..Len(script_chan[t]) : script_chan[t][k] = c})
CleanupOps == {"cleanup_removed", "cleanup_kept", "cleanup_unreachable"}

\* C12: when the owning thread handles a cleanup message, the drop that
\* sent it has released its reference: the messages waiting for the cell
\* outnumber the drops that have sent and not yet released, so the message
\* handled is not one of theirs.
C12_DecrementBeforeCleanup ==
    [][op'.name \in CleanupOps
          => CountIn(trusted, Unreleased(op'.idx)) < MessagesFor(op'.t, op'.idx)]_vars

\* The Trusted values in existence (their Arc not released) for an object.
TrustedFor(obj) == {x \in BagToSet(trusted) : cells[x.objref].ptr = obj}

\* C13: cleanup re-checks the count when the message is handled: the entry
\* stays while a Trusted for the object exists (one made by pinning the
\* object again after the drop that sent the message included), it is
\* removed when none exists, and every other entry stays in the table.
C13_CleanupRechecksCount ==
    [][op'.name \in CleanupOps
          => LET t == op'.t
                 c == op'.idx
             IN /\ ~aborted'
                /\ c \in TableCells(t)
                /\ IF TrustedFor(op'.obj) # {}
                   THEN table'[t] = table[t]
                   ELSE /\ {table'[t][i] : i \in 1..Len(table'[t])} = TableCells(t) \ {c}
                        /\ Len(table'[t]) = Len(table[t]) - 1
                /\ \A u \in Threads \ {t} : table'[u] = table[u]]_vars

\* "a" was pinned again after the drop that sent the message; the message
\* is handled while the second Trusted is held and "b" has an entry too.
C13_Witness ==
    /\ op.name = "cleanup_kept"
    /\ hist[op.idx].pins = 2
    /\ \E x \in HeldTrusted : x.objref = op.idx
    /\ Len(table[op.t]) = 2

\* The entries of a table that hold the pointer.
EntriesFor(tbl, cs, ptr) == {i \in 1..Len(tbl) : cs[tbl[i]].ptr = ptr}

\* C14: no table holds two entries for the same pointer; Trusted::new of
\* an object that has an entry returns a Trusted sharing the entry's cell
\* and leaves the table as it is, and Trusted::new of an object without an
\* entry appends exactly one entry for it.
C14_OneEntryPerPointer ==
    [][/\ \A t \in Threads, obj \in Objs :
             Cardinality(EntriesFor(table'[t], cells', obj)) <= 1
       /\ op'.name = "pin"
             => LET t == op'.t
                    c == op'.idx
                    had == EntriesFor(table[t], cells, op'.obj)
                IN /\ trusted' = trusted (+) One(Held(c, LiveReferencesAddr(t)))
                   /\ cells'[c].ptr = op'.obj
                   /\ IF had # {}
                      THEN /\ table' = table
                           /\ \A i \in had : table[t][i] = c
                           /\ cells'[c].strong = cells[c].strong + 1
                      ELSE /\ table'[t] = Append(table[t], c)
                           /\ cells[c].strong = 0
                           /\ cells'[c].strong = 2
                   /\ \A u \in Threads \ {t} : table'[u] = table[u]]_vars

\* "a" is pinned a second time while its entry and the entry of "b" are in
\* the table.
C14_Witness ==
    /\ op.name = "pin"
    /\ hist[op.idx].pins = 2
    /\ Len(table[op.t]) = 2
    /\ cells[op.idx].strong >= 3

C16_FailedSendIgnored ==
    [][/\ op'.name = "drop_send_failed"
             => /\ ~port_open[op'.t]
                /\ ~aborted'
                /\ table' = table
                /\ script_chan' = script_chan
                /\ cells' = cells
                /\ \E x \in BagToSet(trusted') : x.objref = op'.idx /\ x.pc = "sent"
       /\ (op'.name = "drop_release" /\ ~port_open[op'.t])
             => /\ ~aborted'
                /\ table' = table
                /\ script_chan' = script_chan
                /\ BagCardinality(trusted') = BagCardinality(trusted) - 1
                /\ cells'[op'.idx].strong = cells[op'.idx].strong - 1]_vars

\* The only Trusted of an object found the channel closed when it sent its
\* message; the entry of the object is still in the table.
C16_Witness ==
    /\ op.name = "drop_send_failed"
    /\ ~port_open[op.t]
    /\ CountIn(trusted, TrustedOf(op.idx)) = 1
    /\ op.idx \in TableCells(op.t)
    /\ cells[op.idx].strong = 2

CastOps == {"upcast", "downcast_some", "downcast_none"}

\* C17: Root::upcast and Root::downcast perform no root and no unroot: the
\* slots of the registry and the number of live slots are the same before
\* and after the cast, when a downcast matches and when it returns None.
C17_CastLeavesRegistry ==
    [][op'.name \in CastOps
          => /\ roots' = roots
             /\ Cardinality(LiveSlots(roots'[op'.t])) = Cardinality(LiveSlots(roots[op'.t]))]_vars

\* C17, amended: upcast and a downcast that matches leave the registry and
\* the handle as they are; a downcast that returns None drops the Root it
\* was given: that slot alone is unrooted, no slot is rooted, and the live
\* slots are one fewer, as many as the handles that remain.
C17_CastRootsNothing ==
    [][op'.name \in CastOps
          => LET t == op'.t IN
             /\ ~aborted'
             /\ LiveSlots(roots'[t]) \subseteq LiveSlots(roots[t])
             /\ \A i \in LiveSlots(roots'[t]) : roots'[t][i + 1] = roots[t][i + 1]
             /\ \A u \in Threads \ {t} : roots'[u] = roots[u]
             /\ IF op'.name = "downcast_none"
                THEN /\ LiveSlots(roots'[t]) = LiveSlots(roots[t]) \ {op'.idx}
                     /\ op'.idx \in LiveSlots(roots[t])
                     /\ BagCardinality(handles') = BagCardinality(handles) - 1
                     /\ \A x \in BagToSet(handles') :
                           ~(x.root_list = t /\ x.idx = op'.idx)
                ELSE /\ roots' = roots
                     /\ next_empty_idx' = next_empty_idx
                     /\ handles' = handles]_vars

\* A downcast returned None while two other handles live on, one of them
\* above the slot that was unrooted.
C17_Witness ==
    /\ op.name = "downcast_none"
    /\ HandlesOn(op.t) = 2
    /\ op.idx \in Tombstones(roots[op.t])

\* The DOMVec and DOMMap values among the handles of a bag.
Containers(hs) == {x \in BagToSet(hs) : x.kind \in {"DOMVec", "DOMMap"}}

\* C18: from DOMVec::from_jsobject / DOMMap::from_jsobject until the drop
\* of the handle its backing object is in the one live slot the handle
\* holds, every trace_roots call reports that slot, and the drop clears
\* that slot alone: every other live slot keeps its pointer.
C18_ContainerRootedWhileAlive ==
    [][/\ \A x \in Containers(handles') :
             /\ IsLive(roots'[x.root_list], x.idx)
             /\ roots'[x.root_list][x.idx + 1] = x.obj
             /\ CopiesIn(x, handles') = 1
       /\ op'.name = "trace"
             => \A x \in Containers(handles) :
                   x.root_list = op'.t
                      => Cardinality({k \in 1..Len(traced') :
                                        traced'[k] = [slot |-> x.idx, obj |-> x.obj]}) = 1
       /\ (op'.name = "unroot" /\ KindOf(op'.obj) # "Root")
             => /\ ~aborted'
                /\ ~IsLive(roots'[op'.t], op'.idx)
                /\ \A i \in LiveSlots(roots[op'.t]) \ {op'.idx} :
                      /\ i < Len(roots'[op'.t])
                      /\ roots'[op'.t][i + 1] = roots[op'.t][i + 1]]_vars

\* A trace while a DOMVec and a DOMMap are alive above a tombstone.
C18_Witness ==
    /\ op.name = "trace"
    /\ \E x, y \in Containers(handles) :
          /\ x.kind = "DOMVec" /\ y.kind = "DOMMap"
          /\ x.root_list = op.t /\ y.root_list = op.t
          /\ \E i \in Tombstones(roots[op.t]) : i < x.idx /\ i < y.idx
    /\ Len(traced) = 2

\* ------------------------------------------------------------------------
\* Properties of DOMVec
\* ------------------------------------------------------------------------

\* C19: for a DOMVec of length n and an object x, after push(x) the length
\* is n + 1, get(n) returns x, and get(i) returns for every i < n what it
\* returned before the push.
C19_PushAppends ==
    [][op'.name = "push"
          => LET n == DOMVec_len(elems) IN
             /\ DOMVec_len(elems') = n + 1
             /\ DOMVec_get(elems', n) = Some(op'.obj)
             /\ op'.obj \in ElemObjs
             /\ \A i \in 0..(n - 1) : DOMVec_get(elems', i) = DOMVec_get(elems, i)]_vars

\* "b", an object with a proxy, was pushed onto a vector that holds "a",
\* a hole and "b".
C19_Witness ==
    /\ op.name = "push"
    /\ op.obj = "b"
    /\ DOMVec_len(elems) = 4
    /\ DOMVec_get(elems, 0) = Some("a")
    /\ DOMVec_get(elems, 1) = None
    /\ DOMVec_get(elems, 2) = Some("b")

C21_MapSetGetRemove ==
    [][op'.name \in {"map_set", "map_remove"}
          => LET k == KeyNames[op'.idx] IN
             /\ \A j \in Keys \ {k} :
                   /\ DOMMap_has(props', j) = DOMMap_has(props, j)
                   /\ DOMMap_get(props', j) = DOMMap_get(props, j)
             /\ op'.name = "map_set"
                   => /\ DOMMap_has(props', k)
                      /\ DOMMap_get(props', k) = Some(JS(op'.obj))
             /\ (op'.name = "map_remove" /\ props[k] # Absent)
                   => /\ ~DOMMap_has(props', k)
                      /\ DOMMap_get(props', k) = None]_vars

\* ------------------------------------------------------------------------
\* Further properties of Trusted and the live-reference table
\* ------------------------------------------------------------------------

\* C22: once no Trusted for an object exists and no RefcountCleanup message
\* for it is waiting, the table of the owning thread holds no entry for
\* the object.
C22_NoEntryLeaked ==
    \A t \in Threads :
        \A i \in 1..Len(table[t]) :
            LET c == table[t][i] IN
            TrustedOf(c) # {} \/ MessagesFor(t, c) > 0

\* ------------------------------------------------------------------------
\* Further properties of the stack root registry
\* ------------------------------------------------------------------------

\* C23: root appends a slot only when every slot of the registry is live;
\* when a tombstone exists the pointer is stored in a tombstone.  So the
\* registry is never longer than the number of handles that can be
\* outstanding at the same time.
C23_RootReusesTombstones ==
    [][op'.name = "root"
          => LET t == op'.t IN
             /\ Tombstones(roots[t]) # {}
                   => /\ op'.idx \in Tombstones(roots[t])
                      /\ Len(roots'[t]) = Len(roots[t])
             /\ Len(roots'[t]) <= MaxHandles]_vars

\* C24: cleanup always finds an entry for the object of the message it
\* handles: every message waiting in the channel of a thread has an entry
\* for its pointer in the table of that thread, and the unreachable!
\* branch is never taken.
C24_CleanupFindsEntry ==
    /\ op.name # "cleanup_unreachable"
    /\ \A t \in Threads :
          \A k \in 1..Len(script_chan[t]) :
              /\ cells[script_chan[t][k]].strong > 0
              /\ Position(table[t], cells, cells[script_chan[t][k]].ptr, 0) >= 0

\* The first of two waiting messages was handled and its entry removed;
\* the message for the other object is still waiting.
C24_Witness ==
    /\ op.name = "cleanup_removed"
    /\ Len(table[op.t]) = 1
    /\ Len(script_chan[op.t]) = 1
    /\ cells[script_chan[op.t][1]].ptr # op.obj

\* ------------------------------------------------------------------------
\* Further properties of DOMVec
\* ------------------------------------------------------------------------

\* C25: remove never makes the vector longer, whatever the index, an index
\* at or beyond the length included.
C25_RemoveNeverGrows ==
    [][op'.name = "remove" => DOMVec_len(elems') <= DOMVec_len(elems)]_vars

\* C26: insert(idx, obj) on a vector of length n with idx <= n leaves
\* length n + 1 and obj at position idx.
C26_InsertAtIndex ==
    [][(op'.name = "insert" /\ op'.idx <= DOMVec_len(elems))
          => /\ DOMVec_len(elems') = DOMVec_len(elems) + 1
             /\ DOMVec_get(elems', op'.idx) = Some(op'.obj)]_vars

\* C27: in every reachable state a registry is empty or its last slot is
\* live: no root or unroot leaves a tombstone in the last position.
C27_LastSlotLive ==
    \A t \in Threads :
        roots[t] = <<>> \/ roots[t][Len(roots[t])] # NULL

\* The last slot was unrooted while the slot below it is live and the
\* first slot is a tombstone: the registry was cut back to two slots.
C27_Witness ==
    /\ op.name = "unroot"
    /\ op.idx = 2
    /\ Len(roots[op.t]) = 2
    /\ roots[op.t][1] = NULL

\* ------------------------------------------------------------------------
\* C28
\* ------------------------------------------------------------------------

\* C28: after any sequence of item calls and child-list mutations reported
\* through children_changed, last_visited is the child at position
\* last_index (None only for a node without children), and the last item(i)
\* returned the i-th child for i below the number of children and None for
\* every other i, without a panic.
C28_CacheIsChildAtIndex ==
    /\ last_visited = ChildAt(children, last_index)
    /\ children # <<>> => last_visited # NULL
    /\ op.name = "item" => ~aborted /\ op.obj = ChildAt(children, op.idx)

\* ------------------------------------------------------------------------
\* C29, C30
\* ------------------------------------------------------------------------
DeleteCount(queue, o) == Cardinality({i \in 1..Len(queue) : queue[i] = DeleteMsg(o)})

\* C29: for each WebGL object, over any sequence of delete calls that
\* return, the first call sends the one Delete message of the object and
\* sets is_deleted, a later call sends nothing; is_deleted is false until
\* then and stays true, and the renderer was sent exactly one Delete
\* message for a deleted object and none for any other.
C29_DeleteOnce ==
    [][~aborted' =>
        /\ \A o \in WebGLObjs :
            /\ is_deleted[o] => is_deleted'[o]
            /\ DeleteCount(renderer', o) = IF is_deleted'[o] THEN 1 ELSE 0
        /\ op'.name = "delete" =>
            /\ is_deleted'[op'.obj]
            /\ \A o \in WebGLObjs \ {op'.obj} : is_deleted'[o] = is_deleted[o]
            /\ renderer' = IF is_deleted[op'.obj] THEN renderer
                           ELSE Append(renderer, DeleteMsg(op'.obj))]_vars

\* A second delete call on a deleted object returned.
C29_Witness ==
    /\ op.name = "delete"
    /\ op.idx = 1
    /\ ~aborted
    /\ DeleteCount(renderer, op.obj) = 1

\* C30: the target of a WebGLBuffer is fixed by its first bind: a bind with
\* another target returns InvalidOperation, sends nothing and leaves the
\* target alone; the first bind and every bind with the recorded target that
\* returns, returns Ok, has sent exactly one BindBuffer message and leaves
\* the target of the first bind recorded.
C30_TargetFixedByFirstBind ==
    [][/\ target.some => target'.some /\ target'.val = target.val
       /\ op'.name = "bind" /\ ~aborted' =>
            IF target.some /\ target.val # op'.idx
            THEN /\ op'.obj = "InvalidOperation"
                 /\ renderer' = renderer
            ELSE /\ op'.obj = "Ok"
                 /\ renderer' = Append(renderer, BindBuffer(op'.idx, IdOf("buffer")))
                 /\ target'.some /\ target'.val = op'.idx]_vars

\* A bind with another target than the recorded one was refused.
C30_Witness ==
    /\ op.name = "bind"
    /\ op.obj = "InvalidOperation"
    /\ target.some
    /\ target.val # op.idx
    /\ BindCount(renderer) >= 1

====
